---- MODULE Spec2Model ----
(***************************************************************************)
(* A model of src/Tenuous.py: the StructuredModel solver pipeline          *)
(* (ApproxBound, solvetheta, HL, UpdatingDrift, ExpectH), the closed-form  *)
(* minimizer __mined / __S1, and the state grid built by __MatchODE.       *)
(*                                                                         *)
(* Floating-point values are records [t, n]: t = "num" carries the integer *)
(* n, t = "nan" is NaN, t = "inf" is +infinity and t = "none" is Python's  *)
(* None.  Residuals are counted in units of their tolerance: an entropy    *)
(* gap in units of 1e-2, a kink residual in units of 1e-4, theta in        *)
(* tenths.                                                                 *)
(***************************************************************************)
EXTENDS Integers, Sequences, FiniteSets, TLC

VARIABLES
    qus,          \* self.qus: the target relative entropy (finite or inf)
    theta,        \* self.theta
    status,       \* self.status: 0 not solved, 1 solved
    dvErr,        \* self.dvErr
    qErr,         \* self.qErr
    dv0,          \* self.dv0
    v,            \* self.v: the matched solution stored by HL
    Distorted,    \* self.Distorted
    hl,           \* self.hl
    bounds,       \* self.dvl / self.dvr set by ApproxBound
    drift,        \* self.driftk / self.driftz set by UpdatingDrift
    bundles,      \* the quantile bundles set by ExpectH
    writes,       \* how often each field was assigned since construction
    pc,           \* position inside solvetheta
    values,       \* solvetheta's local list of grid-search values
    theta0guess,  \* solvetheta's local seed of the root-finder
    nfev,         \* calls of __CalibratingTheta made by the running solvetheta
    fx,           \* fsolve's current iterate
    lastTheta,    \* argument of the latest __CalibratingTheta call
    par,          \* the parameter fields of the model, fixed by __init__
    call,         \* the arguments of the latest call of a pure function
    ret           \* what that call returned

vars == <<qus, theta, status, dvErr, qErr, dv0, v, Distorted, hl, bounds,
          drift, bundles, writes, pc, values, theta0guess, nfev, fx, lastTheta,
          par, call, ret>>

modelVars == <<qus, theta, status, dvErr, qErr, dv0, v, Distorted, hl,
               bounds, drift, bundles, writes>>
localVars == <<pc, values, theta0guess, nfev, fx, lastTheta>>
funVars == <<par, call, ret>>

----------------------------------------------------------------------------
(* Floating-point values *)

Num(n) == [t |-> "num", n |-> n]
NaN == [t |-> "nan", n |-> 0]
Inf == [t |-> "inf", n |-> 0]
None == [t |-> "none", n |-> 0]

IsNum(x) == x.t = "num"
IsNaN(x) == x.t = "nan"

Abs(n) == IF n < 0 THEN -n ELSE n

\* abs() of a float: abs(nan) is nan, abs(inf) is inf
FAbs(x) == IF IsNum(x) THEN Num(Abs(x.n)) ELSE x

\* x < y on floats: every comparison with NaN is False
FLt(x, y) ==
    CASE IsNaN(x) \/ IsNaN(y) -> FALSE
      [] IsNum(x) /\ IsNum(y) -> x.n < y.n
      [] IsNum(x) /\ y = Inf -> TRUE
      [] OTHER -> FALSE

\* x > y on floats
FGt(x, y) == FLt(y, x)

\* x <= y on floats
FLe(x, y) ==
    CASE IsNaN(x) \/ IsNaN(y) -> FALSE
      [] IsNum(x) /\ IsNum(y) -> x.n <= y.n
      [] y = Inf -> TRUE
      [] OTHER -> FALSE

----------------------------------------------------------------------------
(* Units and program constants *)

\* thetalist of solvetheta, in tenths
thetalist == <<1, 2, 3, 4, 6, 8, 10, 12>>

\* maxfev of the fsolve call in solvetheta
MaxFev == 20

\* 1e-2, the entropy tolerance of solvetheta, in units of 1e-2
QTol == 1

\* 1e-4, the kink tolerance of solvetheta, in units of 1e-4
DvTol == 1

\* 1, the reject threshold of the grid search, in units of 1e-4
RejectTol == 10000

\* how far above the seed (in tenths) the root-finder's trial points range
ThetaSpread == 1

\* the kink residuals abs(v0Diff(dv0)) a kink matching can end with
DiffLevels == {Num(0), Num(DvTol), Num(RejectTol), Num(RejectTol + 1), NaN}

\* the values implied entropy minus target takes at a grid-search candidate
GridGaps == {Num(-2), Num(1), NaN}

\* the values implied entropy minus target takes inside the root-finder
GapLevels == GridGaps \cup {Num(0)}

\* status of scipy's solve_bvp: 0 converged, 1 mesh nodes exceeded, 2 singular
BvpStatus == {0, 1, 2}

----------------------------------------------------------------------------
(* __mined and __S1: the closed-form minimizer *)

(***************************************************************************)
(* Reals live on the integer lattice: sums and products are exact, a       *)
(* quotient and a square root are rounded to the nearest lattice point, as *)
(* every IEEE operation rounds to the nearest double.  The slope dv is     *)
(* counted in hundredths (dv100 = 100 * dv) and so is the objective.       *)
(***************************************************************************)

\* x / y rounded to the nearest integer, y # 0
RoundDiv(x, y) ==
    IF y > 0 THEN (2 * x + y) \div (2 * y)
    ELSE (2 * (-x) + (-y)) \div (2 * (-y))

RECURSIVE SqrtSearch(_, _, _)
SqrtSearch(x, lo, hi) ==
    IF lo >= hi THEN lo
    ELSE LET mid == (lo + hi + 1) \div 2 IN
         IF mid <= x \div mid THEN SqrtSearch(x, mid, hi)
         ELSE SqrtSearch(x, lo, mid - 1)

\* the square root of x >= 0 rounded to the nearest integer
RoundSqrt(x) ==
    LET r == SqrtSearch(x, 0, x) IN
    IF (r + 1) * (r + 1) - x < x - r * r THEN r + 1 ELSE r

NAdd(x, y) == IF IsNum(x) /\ IsNum(y) THEN Num(x.n + y.n) ELSE NaN
NSub(x, y) == IF IsNum(x) /\ IsNum(y) THEN Num(x.n - y.n) ELSE NaN
NMul(x, y) == IF IsNum(x) /\ IsNum(y) THEN Num(x.n * y.n) ELSE NaN
NDiv(x, y) ==
    IF IsNum(x) /\ IsNum(y) /\ y.n # 0 THEN Num(RoundDiv(x.n, y.n)) ELSE NaN

\* np.sqrt: NaN for a negative argument
NSqrt(x) == IF IsNum(x) /\ x.n >= 0 THEN Num(RoundSqrt(x.n)) ELSE NaN

\* the parameter fields of the model; a, b, d with a*d > b*b, sz is sigmaz,
\* sz2 is norm(sigmaz) ** 2, sk is 0.01 * sigmak and delta the discount rate
DefaultParams ==
    [a |-> 2, b |-> 1, d |-> 2, alphak |-> 1, betak |-> 1,
     alphaz |-> 0, betaz |-> 1, zbar |-> 0, rho1 |-> 0, rho2 |-> 1,
     sz |-> <<1, 1>>, sz2 |-> 2, q0s |-> 1, sk |-> <<1, 0>>, delta |-> 1]

\* the coefficients A .. CC of __mined
Coefficients(p, z, dv100) ==
    LET A == RoundDiv(p.a, 2)
        C1 == p.rho1 + p.rho2 * (z - p.zbar)
        C0 == C1 * (p.alphaz - p.betaz * (z - p.zbar))
                + RoundDiv(p.sz2, 2) * p.rho2 - RoundDiv(p.q0s * p.q0s, 2)
        C2 == RoundDiv(p.d, 2)
        D == RoundDiv(p.b * p.b, 2 * A) - 2 * C2
        E == (dv100 - RoundDiv(p.b, 2 * A)) * (dv100 - RoundDiv(p.b, 2 * A))
    IN  [A |-> A, C0 |-> C0, C1 |-> C1, C2 |-> C2, D |-> D, E |-> E,
         AA |-> E * p.b * p.b - 4 * A * E * C2 - D * D,
         BB |-> 2 * C1 * D - 4 * A * E * C1,
         CC |-> -4 * A * C0 * E - C1 * C1]

\* BB ** 2 - 4 * AA * CC
S2Disc(p, z, dv100) ==
    LET c == Coefficients(p, z, dv100) IN c.BB * c.BB - 4 * c.AA * c.CC

\* the candidate roots s21 (sign = 1) and s22 (sign = -1)
S2Root(p, z, dv100, sign) ==
    LET c == Coefficients(p, z, dv100)
        r == NSqrt(Num(S2Disc(p, z, dv100)))
    IN  NDiv(IF sign = 1 THEN NAdd(Num(-c.BB), r) ELSE NSub(Num(-c.BB), r),
             Num(2 * c.AA))

\* B ** 2 - 4 * A * C of __S1 at a root s2 that is a number
S1Disc(p, s2, z) ==
    LET A == RoundDiv(p.a, 2)
        B == p.b * s2
        C1 == p.rho1 + p.rho2 * (z - p.zbar)
        C == RoundDiv(p.d, 2) * s2 * s2 + C1 * s2
               + C1 * (p.alphaz - p.betaz * (z - p.zbar))
               + RoundDiv(p.sz2, 2) * p.rho2 - RoundDiv(p.q0s * p.q0s, 2)
    IN  B * B - 4 * A * C

\* __S1(s2, z)
S1(p, s2, z) ==
    IF ~IsNum(s2) THEN NaN
    ELSE NDiv(NSub(Num(-(p.b * s2.n)), NSqrt(Num(S1Disc(p, s2.n, z)))),
              Num(2 * RoundDiv(p.a, 2)))

\* the objective at a root s2: mined1 and mined2 of __mined
Objective(p, s2, z, dv100) ==
    NAdd(NAdd(Num(p.alphak + p.betak * (z - p.zbar)), S1(p, s2, z)),
         NMul(Num(dv100),
              NAdd(Num(p.alphaz - p.betaz * (z - p.zbar)), s2)))

\* a min that always keeps its first argument
PyMinFirst(x, y) == x

\* Python's min(x, y): y if y < x, else x
PyMin(x, y) == IF FLt(y, x) THEN y ELSE x

\* np.min over the two stacked rows: NaN as soon as one entry is NaN
NpMin(x, y) ==
    IF IsNaN(x) \/ IsNaN(y) THEN NaN ELSE IF FLt(y, x) THEN y ELSE x

\* a float times a comparison's bool
TimesBool(x, bool) == IF bool THEN x ELSE NMul(x, Num(0))

\* s21 * (mined1 <= mined2) + s22 * (mined1 > mined2)
SelectedControl(s21, s22, mined1, mined2) ==
    NAdd(TimesBool(s21, FLe(mined1, mined2)),
         TimesBool(s22, FGt(mined1, mined2)))

\* a __mined that hands back the pair for every call shape
MinedReturnPair(scalar, res, ctrl) ==
    [kind |-> "tuple", res |-> res, ctrl |-> ctrl]

\* what __mined returns: the pair (res, control) on the scalar branch, the
\* array res alone on the other
MinedReturn(scalar, res, ctrl) ==
    IF scalar THEN [kind |-> "tuple", res |-> res, ctrl |-> ctrl]
    ELSE [kind |-> "array", res |-> res, ctrl |-> <<>>]

\* __mined(z, dv): zs and dvs hold one entry for a scalar call and the
\* arrays' entries otherwise
Mined(p, zs, dvs, scalar) ==
    LET s21(i) == S2Root(p, zs[i], dvs[i], 1)
        s22(i) == S2Root(p, zs[i], dvs[i], -1)
        mined1(i) == Objective(p, s21(i), zs[i], dvs[i])
        mined2(i) == Objective(p, s22(i), zs[i], dvs[i])
    IN  MinedReturn(scalar,
            [i \in DOMAIN dvs |->
                IF scalar THEN PyMin(mined1(i), mined2(i))
                ELSE NpMin(mined1(i), mined2(i))],
            [i \in DOMAIN dvs |->
                SelectedControl(s21(i), s22(i), mined1(i), mined2(i))])

----------------------------------------------------------------------------
(* __ODEsolver and __MatchODE *)

\* __ODEsolver hands back solve_bvp's result whatever its status is
ODEsolver(st) == [status |-> st, success |-> (st = 0)]

\* the result dictionary of __MatchODE: v0Diff and the splines read the
\* solutions' y arrays without consulting their status
MatchODE(negst, posst) ==
    [set |-> TRUE, rows |-> 2,
     negsol |-> ODEsolver(negst), possol |-> ODEsolver(posst)]

\* self.v = None
NoSolution ==
    [set |-> FALSE, rows |-> 0,
     negsol |-> ODEsolver(0), possol |-> ODEsolver(0)]

----------------------------------------------------------------------------
(* __CalibratingTheta and the seed of the root-finder *)

\* __CalibratingTheta with the reject test applied whatever the mode is
CalibratingThetaReject(diff, gap, gridsearch) ==
    IF FGt(diff, Num(RejectTol)) THEN Inf ELSE gap

\* the value __CalibratingTheta returns for a kink residual diff and an
\* entropy gap; in grid-search mode a residual above 1 gives np.inf
CalibratingTheta(diff, gap, gridsearch) ==
    IF gridsearch /\ FGt(diff, Num(RejectTol)) THEN Inf ELSE gap

\* np.array(values) is a float array when every entry has the same shape (all
\* one-element arrays or all scalar np.inf) and an object array otherwise
Mixed(s) ==
    /\ \E i \in DOMAIN s : s[i] = Inf
    /\ \E i \in DOMAIN s : s[i] # Inf

\* np.argmin of a float array: the first NaN if there is one, else the first
\* minimum
FloatArgmin(s) ==
    IF \E i \in DOMAIN s : IsNaN(s[i])
    THEN CHOOSE i \in DOMAIN s :
            IsNaN(s[i]) /\ \A j \in 1..(i - 1) : ~IsNaN(s[j])
    ELSE CHOOSE i \in DOMAIN s :
            /\ \A j \in DOMAIN s : FLe(s[i], s[j])
            /\ \A j \in 1..(i - 1) : FLt(s[i], s[j])

RECURSIVE ObjectScan(_, _, _)
ObjectScan(s, i, idx) ==
    IF i > Len(s) THEN idx
    ELSE ObjectScan(s, i + 1, IF FLt(s[i], s[idx]) THEN i ELSE idx)

\* np.argmin of an object array: a scan that moves on a strict <
ObjectArgmin(s) == ObjectScan(s, 2, 1)

Argmin(s) == IF Mixed(s) THEN ObjectArgmin(s) ELSE FloatArgmin(s)

AbsAll(s) == [i \in DOMAIN s |-> FAbs(s[i])]

\* minIdx = np.argmin(abs(np.array(values)))
SeedIndex(vals) == Argmin(AbsAll(vals))

\* a solvetheta that never takes the short cut
IsInfTargetNever(q) == FALSE

\* qus == np.inf
IsInfTarget(q) == q = Inf

\* self.qErr < 1e-2 and self.dvErr < 1e-4
Solved(q, d) == FLt(q, Num(QTol)) /\ FLt(d, Num(DvTol))

\* the points fsolve may evaluate from the seed x0
TrialThetas(x0) == x0 .. (x0 + ThetaSpread)

----------------------------------------------------------------------------
(* StructuredModel: construction and the pipeline steps *)

NoCall == [f |-> "none"]

\* the targets a model is constructed with: 0.1 (in units of 1e-2) or np.inf
Targets == {Num(10), Inf}

\* the fields of a model that the methods assign
Fields ==
    {"theta", "status", "dvErr", "qErr", "v", "vy", "Distorted", "s1", "s2",
     "hl", "drift", "bundles"}

\* assignments to a field are counted up to this many
WriteCap == 2

\* the counts w after one more assignment to each field of fs
Written(w, fs) ==
    [f \in DOMAIN w |->
        IF f \in fs /\ w[f] < WriteCap THEN w[f] + 1 ELSE w[f]]

\* StructuredModel.__init__ called with the entropy target q and the
\* parameters p
Construct(q, p) ==
    /\ qus = q
    /\ theta = None
    /\ status = 0
    /\ dvErr = None
    /\ qErr = None
    /\ dv0 = None
    /\ v = NoSolution
    /\ Distorted = FALSE
    /\ hl = None
    /\ bounds = FALSE
    /\ drift = FALSE
    /\ bundles = FALSE
    /\ writes = [f \in Fields |-> 0]
    /\ pc = "idle"
    /\ values = <<>>
    /\ theta0guess = 0
    /\ nfev = 0
    /\ fx = 0
    /\ lastTheta = 0
    /\ par = p
    /\ call = NoCall
    /\ ret = NoCall

\* a model constructed with the default parameters
Init == \E q \in Targets : Construct(q, DefaultParams)

\* ApproxBound: stores dvl and dvr
ApproxBound ==
    /\ pc = "idle"
    /\ bounds' = TRUE
    /\ UNCHANGED <<qus, theta, status, dvErr, qErr, dv0, v, Distorted, hl,
                   drift, bundles, writes>>
    /\ UNCHANGED localVars
    /\ UNCHANGED funVars

\* solvetheta, infinite target: theta = inf and status = 1, nothing evaluated
SolveThetaInf ==
    /\ pc = "idle"
    /\ theta = None
    /\ IsInfTarget(qus)
    /\ theta' = Inf
    /\ status' = 1
    /\ writes' = Written(writes, {"theta", "status"})
    /\ UNCHANGED <<qus, dvErr, qErr, dv0, v, Distorted, hl, bounds, drift,
                   bundles>>
    /\ UNCHANGED localVars
    /\ UNCHANGED funVars

\* solvetheta, finite target: entry into the grid search.  __MatchODE reads
\* self.dvl and self.dvr, which only ApproxBound creates
SolveThetaBegin ==
    /\ pc = "idle"
    /\ theta = None
    /\ ~IsInfTarget(qus)
    /\ bounds
    /\ pc' = "grid"
    /\ values' = <<>>
    /\ nfev' = 0
    /\ UNCHANGED <<theta0guess, fx, lastTheta>>
    /\ UNCHANGED modelVars
    /\ UNCHANGED funVars

\* a pass of the loop in which __CalibratingTheta records its diagnostics
\* as it does outside the grid search
GridEvalRecording ==
    /\ pc = "grid"
    /\ Len(values) < Len(thetalist)
    /\ \E diff \in DiffLevels, gap \in GridGaps :
          LET nv == Append(values, CalibratingTheta(diff, gap, TRUE)) IN
          /\ values' = nv
          /\ nfev' = nfev + 1
          /\ dvErr' = diff
          /\ qErr' = CalibratingTheta(diff, gap, FALSE)
          /\ IF Len(nv) = Len(thetalist)
             THEN /\ theta0guess' = thetalist[SeedIndex(nv)]
                  /\ pc' = "seeded"
             ELSE UNCHANGED <<theta0guess, pc>>
    /\ UNCHANGED <<fx, lastTheta>>
    /\ UNCHANGED <<qus, theta, status, dv0, v, Distorted, hl, bounds, drift,
                   bundles, writes>>
    /\ UNCHANGED funVars

\* one pass of the loop over thetalist; after the last candidate the seed is
\* taken from the values
GridEval ==
    /\ pc = "grid"
    /\ Len(values) < Len(thetalist)
    /\ \E diff \in DiffLevels, gap \in GridGaps :
          LET nv == Append(values, CalibratingTheta(diff, gap, TRUE)) IN
          /\ values' = nv
          /\ nfev' = nfev + 1
          /\ IF Len(nv) = Len(thetalist)
             THEN /\ theta0guess' = thetalist[SeedIndex(nv)]
                  /\ pc' = "seeded"
             ELSE UNCHANGED <<theta0guess, pc>>
    /\ UNCHANGED <<fx, lastTheta>>
    /\ UNCHANGED modelVars
    /\ UNCHANGED funVars

\* the positions inside fsolve: after its call at the seed that checks the
\* shape of the result, and inside the MINPACK routine after the call at the
\* starting point, after a forward-difference call for the Jacobian and after
\* a call at a trial point
FsolveStages == {"shape", "initial", "jacobian", "trial"}

\* the call that follows each position: the Jacobian follows the starting
\* point, a trial point follows the Jacobian, and after a trial point comes
\* another one or, when steps keep failing, the Jacobian again
NextStage(at) ==
    CASE at = "seeded" -> {"shape"}
      [] at = "shape" -> {"initial"}
      [] at = "initial" -> {"jacobian"}
      [] at = "jacobian" -> {"trial"}
      [] at = "trial" -> {"trial", "jacobian"}

\* a count of the routine's calls that leaves out its first two
HybrdCallsAfterJacobian == nfev - Len(thetalist) - 3

\* the calls the MINPACK routine has made
HybrdCalls == nfev - Len(thetalist) - 1

\* one call of __CalibratingTheta(t, False) made by fsolve: it records dvErr
\* and qErr.  The routine compares its number of calls with maxfev only after
\* a call at a trial point; a trial point becomes the current iterate only
\* when the step is accepted, the forward-difference point never does
FsolveEval ==
    /\ pc \in {"seeded"} \cup FsolveStages
    /\ (pc = "trial") => (HybrdCalls < MaxFev)
    /\ \E stage \in NextStage(pc), t \in TrialThetas(theta0guess),
          diff \in DiffLevels, gap \in GapLevels, accept \in BOOLEAN :
          /\ (stage \in {"shape", "initial"}) => (t = theta0guess /\ accept)
          /\ (stage = "jacobian") => (t # fx /\ ~accept)
          /\ dvErr' = diff
          /\ qErr' = CalibratingTheta(diff, gap, FALSE)
          /\ lastTheta' = t
          /\ fx' = IF accept THEN t ELSE fx
          /\ pc' = stage
    /\ nfev' = nfev + 1
    /\ values' = <<>>
    /\ UNCHANGED theta0guess
    /\ writes' = Written(writes, {"dvErr", "qErr"})
    /\ UNCHANGED <<qus, theta, status, dv0, v, Distorted, hl, bounds, drift,
                   bundles>>
    /\ UNCHANGED funVars

\* fsolve returns its current iterate, on convergence or when maxfev is hit
FsolveReturn ==
    /\ pc = "trial"
    /\ theta' = Num(fx)
    /\ pc' = "check"
    /\ writes' = Written(writes, {"theta"})
    /\ UNCHANGED <<qus, status, dvErr, qErr, dv0, v, Distorted, hl, bounds,
                   drift, bundles>>
    /\ UNCHANGED <<values, theta0guess, nfev, fx, lastTheta>>
    /\ UNCHANGED funVars

\* the last statement of solvetheta
SolveThetaCheck ==
    /\ pc = "check"
    /\ status' = IF Solved(qErr, dvErr) THEN 1 ELSE status
    /\ pc' = "idle"
    /\ values' = <<>>
    /\ theta0guess' = 0
    /\ nfev' = 0
    /\ fx' = 0
    /\ lastTheta' = 0
    /\ writes' = IF Solved(qErr, dvErr) THEN Written(writes, {"status"})
                 ELSE writes
    /\ UNCHANGED <<qus, theta, dvErr, qErr, dv0, v, Distorted, hl, bounds,
                   drift, bundles>>
    /\ UNCHANGED funVars

\* an HL that stores the matching and its distortion but no half-life
HLWithoutHalfLife(calHL) ==
    /\ pc = "idle"
    /\ theta # None
    /\ bounds
    /\ \E negst \in BvpStatus, posst \in BvpStatus :
          v' = MatchODE(negst, posst)
    /\ Distorted' = TRUE
    /\ writes' = Written(writes, {"v", "vy", "Distorted", "s1", "s2"})
    /\ UNCHANGED <<qus, theta, status, dvErr, qErr, dv0, hl, bounds, drift,
                   bundles>>
    /\ UNCHANGED localVars
    /\ UNCHANGED funVars

\* HL: a kink matching at self.theta, stored with its distortion; the
\* half-life only when calHL
HL(calHL) ==
    /\ pc = "idle"
    /\ theta # None
    /\ bounds
    /\ \E negst \in BvpStatus, posst \in BvpStatus :
          v' = MatchODE(negst, posst)
    /\ Distorted' = TRUE
    /\ hl' = IF calHL THEN Num(1) ELSE None
    /\ writes' = Written(writes, {"v", "vy", "Distorted", "s1", "s2", "hl"})
    /\ UNCHANGED <<qus, theta, status, dvErr, qErr, dv0, bounds, drift,
                   bundles>>
    /\ UNCHANGED localVars
    /\ UNCHANGED funVars

\* UpdatingDrift: the drifts, and the second derivative as a third row
UpdatingDrift ==
    /\ pc = "idle"
    /\ v.set
    /\ drift' = TRUE
    /\ v' = [v EXCEPT !.rows = 3]
    /\ writes' = Written(writes, {"drift", "vy"})
    /\ UNCHANGED <<qus, theta, status, dvErr, qErr, dv0, Distorted, hl,
                   bounds, bundles>>
    /\ UNCHANGED localVars
    /\ UNCHANGED funVars

\* an ExpectH that marks the model as solved
ExpectHMarkingSolved ==
    /\ pc = "idle"
    /\ v.set
    /\ bundles' = TRUE
    /\ status' = 1
    /\ writes' = Written(writes, {"bundles", "status"})
    /\ UNCHANGED <<qus, theta, dvErr, qErr, dv0, v, Distorted, hl, bounds,
                   drift>>
    /\ UNCHANGED localVars
    /\ UNCHANGED funVars

\* ExpectH: the six quantile bundles
ExpectH ==
    /\ pc = "idle"
    /\ v.set
    /\ bundles' = TRUE
    /\ writes' = Written(writes, {"bundles"})
    /\ UNCHANGED <<qus, theta, status, dvErr, qErr, dv0, v, Distorted, hl,
                   bounds, drift>>
    /\ UNCHANGED localVars
    /\ UNCHANGED funVars

SolveTheta ==
    \/ SolveThetaInf
    \/ SolveThetaBegin
    \/ GridEval
    \/ FsolveEval
    \/ FsolveReturn
    \/ SolveThetaCheck

Next ==
    \/ ApproxBound
    \/ SolveTheta
    \/ \E calHL \in BOOLEAN : HL(calHL)
    \/ UpdatingDrift
    \/ ExpectH

Spec == Init /\ [][Next]_vars

\* the positions of a running solvetheta
RunningAt == {"grid", "seeded", "check"} \cup FsolveStages

\* the next statement of a running solvetheta is executed: every step GridEval,
\* FsolveEval, FsolveReturn and SolveThetaCheck takes from a position of
\* RunningAt moves pc or counts a call
Proceeds ==
    /\ pc \in RunningAt
    /\ pc' \in RunningAt \cup {"idle"}
    /\ nfev' \in {0, nfev, nfev + 1}

\* the calibration alone: the bounds are found, then solvetheta is called
NextRunning == ApproxBound \/ SolveTheta

\* a call of solvetheta that has been entered runs on: each loop pass, each
\* call made by fsolve and the final test is executed once it is reached
SpecRunning == Init /\ [][NextRunning]_vars /\ WF_<<pc, nfev>>(Proceeds)

\* one pass of the body of TenuousModel.solve on a new model: the five
\* methods, each called once and in this order
SolveRun ==
    \/ ~bounds /\ ApproxBound
    \/ bounds /\ SolveTheta
    \/ ~v.set /\ HL(TRUE)
    \/ ~drift /\ UpdatingDrift
    \/ drift /\ ~bundles /\ ExpectH

SpecSolve == Init /\ [][SolveRun]_vars

----------------------------------------------------------------------------
(* Properties of solvetheta *)

\* solvetheta has returned
SolveThetaDone == pc = "idle" /\ theta # None

\* position in thetalist of the seed of the root-finder
SeedPos == CHOOSE i \in DOMAIN thetalist : thetalist[i] = theta0guess

\* |q| < 1e-2 and d < 1e-4, on the residuals' magnitudes
WithinTolerances(q, d) ==
    /\ IsNum(q) /\ Abs(q.n) < QTol
    /\ IsNum(d) /\ d.n < DvTol

\* C1: with an infinite target solvetheta sets theta = inf and status = 1 and
\* nothing else: the model never enters the grid search or the root-finder,
\* no calibration objective is evaluated, dvErr and qErr stay None.
C1_InfiniteTargetShortCircuit ==
    (qus = Inf) =>
        /\ pc = "idle"
        /\ nfev = 0
        /\ values = <<>>
        /\ dvErr = None
        /\ qErr = None
        /\ (theta # None => (theta = Inf /\ status = 1))

C1_Witness == qus = Inf /\ theta = Inf /\ status = 1 /\ dvErr = None

\* C2: for a finite target, after solvetheta the status is SOLVED only if the
\* entropy residual is within 1e-2 of zero in magnitude and the kink residual
\* is below 1e-4.
C2_SolvedOnlyWithinTolerances ==
    (qus # Inf /\ SolveThetaDone /\ status = 1) => WithinTolerances(qErr, dvErr)

\* C3: a calibration that fails its tolerances leaves status at 0 with theta
\* and both diagnostics recorded, and status never goes back from 1 to 0.
C3_FailedCalibrationStaysUnsolved ==
    /\ [](( /\ qus # Inf
            /\ SolveThetaDone
            /\ ~WithinTolerances(qErr, dvErr))
          => (status = 0 /\ dvErr # None /\ qErr # None))
    /\ [][status = 1 => status' = 1]_vars

\* C4: the seed is the candidate with the smallest |implied - target| of the
\* eight, whatever the grid-search values are (infinite and NaN included):
\* whenever some candidate has a finite gap, the seed has a finite gap and
\* none is smaller in magnitude.
C4_SeedHasSmallestGap ==
    (pc = "seeded") =>
        \A j \in DOMAIN values :
            IsNum(values[j]) =>
                /\ IsNum(values[SeedPos])
                /\ Abs(values[SeedPos].n) <= Abs(values[j].n)

\* C5: a candidate rejected for its kink residual is never the seed while
\* another candidate has a finite gap, and inside the root-finder a large kink
\* residual never turns the recorded entropy gap into infinity.
C5_RejectedRankedLast ==
    /\ (pc = "seeded" /\ values[SeedPos] = Inf)
          => \A j \in DOMAIN values : ~IsNum(values[j])
    /\ (pc \in FsolveStages /\ FGt(dvErr, Num(RejectTol))) => qErr # Inf

C5_Witness ==
    /\ pc = "seeded"
    /\ values[1] = Inf
    /\ \E j \in DOMAIN values : IsNum(values[j])
    /\ IsNum(values[SeedPos])

\* C6: a half-line solve that did not converge is never used: the matched
\* solution a model stores rests on two converged half-line solutions.
C6_NonConvergedNeverUsed ==
    v.set => (v.negsol.success /\ v.possol.success)

----------------------------------------------------------------------------
(* The minimizer on its own: calls of __mined on a constructed model *)

\* how far the states z of a call range
ZMax == 2

\* how far the slopes dv100 of a call range
DvMax == 3

\* the lengths of the arrays a vectorized call is made with
VecLens == {1, 2}

\* q0s as the constructor receives it
Q0sChoices == {0, 1, 2}

ZVals == (-ZMax) .. ZMax
DvVals == (-DvMax) .. DvMax

SeqsOf(S, n) == [1..n -> S]

InitMined ==
    \E q \in Q0sChoices : Construct(Inf, [DefaultParams EXCEPT !.q0s = q])

\* a scalar call, as __HJBODE, __MatchODE and __Distortion make it
MinedScalar ==
    /\ call = NoCall
    /\ \E z \in ZVals, dv100 \in DvVals :
          /\ call' = [f |-> "mined", scalar |-> TRUE, z |-> <<z>>,
                      dv |-> <<dv100>>]
          /\ ret' = Mined(par, <<z>>, <<dv100>>, TRUE)
    /\ UNCHANGED par
    /\ UNCHANGED modelVars
    /\ UNCHANGED localVars

\* a vectorized call, as solve_bvp makes it through __HJBODE
MinedVector ==
    /\ call = NoCall
    /\ \E n \in VecLens :
          \E zs \in SeqsOf(ZVals, n), dvs \in SeqsOf(DvVals, n) :
             /\ call' = [f |-> "mined", scalar |-> FALSE, z |-> zs,
                         dv |-> dvs]
             /\ ret' = Mined(par, zs, dvs, FALSE)
    /\ UNCHANGED par
    /\ UNCHANGED modelVars
    /\ UNCHANGED localVars

\* the caller is done with the returned value; the program is single
\* threaded, so the next call starts only then
CallDone ==
    /\ call # NoCall
    /\ call' = NoCall
    /\ ret' = NoCall
    /\ UNCHANGED par
    /\ UNCHANGED modelVars
    /\ UNCHANGED localVars

NextMined == MinedScalar \/ MinedVector \/ CallDone

SpecMined == InitMined /\ [][NextMined]_vars

----------------------------------------------------------------------------
(* The state grid on its own: __MatchODE's grid and __RelativeEntropyUS *)

\* Dz, the grid step, is two lattice units, so that points between two
\* neighbouring grid points exist
Dz == 2

\* the number of grid steps on each side of the kink (2.5 / Dz in the code)
NHalf == 3

\* how far alphaz ranges
AlphaMax == 10

\* how far betaz ranges; betaz > 0
BetaMax == 3

\* np.arange(lo, hi, step)
Arange(lo, hi, step) ==
    [i \in 1 .. ((hi - lo + step - 1) \div step) |-> lo + (i - 1) * step]

\* x_neg of __MatchODE: the points left of the kink, then the kink
XNeg == Append(Arange(-(NHalf * Dz), 0, Dz), 0)

\* x_pos of __MatchODE: the kink, the points right of it, then the end
XPos == Append(Arange(0, NHalf * Dz, Dz), NHalf * Dz)

\* a grid that keeps the first point of x_pos
StateGridKeepKink == XNeg \o XPos

\* res['x'] of __MatchODE: x_neg followed by x_pos without its first point
StateGrid == XNeg \o Tail(XPos)

\* the number of columns of res['y']: negSplined has one per point of
\* x_neg, posSplined one per point of x_pos, and its first is dropped
ValueColumns == Len(XNeg) + (Len(XPos) - 1)

\* the columns selected by the mask zgrid == self.zbar
PinnedColumns(zgrid, zbar) == {j \in DOMAIN zgrid : zgrid[j] = zbar}

\* params: alphaz and betaz as given, zbar = alphaz / betaz
GridParams(az, bz) ==
    [DefaultParams EXCEPT !.alphaz = az, !.betaz = bz,
                          !.zbar = RoundDiv(az, bz)]

InitGrid ==
    \E az \in (-AlphaMax) .. AlphaMax, bz \in 1 .. BetaMax :
        Construct(Num(10), GridParams(az, bz))

\* __MatchODE hands back the grid in res['x'] and the value function and
\* its slope, two rows, in res['y']
MatchGrid ==
    /\ call = NoCall
    /\ call' = [f |-> "MatchODE"]
    /\ ret' = [x |-> StateGrid, yrows |-> 2, ycols |-> ValueColumns]
    /\ UNCHANGED par
    /\ UNCHANGED modelVars
    /\ UNCHANGED localVars

\* the rows over n grid points that the model draws array rows from
FieldChoices(n) ==
    {[j \in 1 .. n |-> 0], [j \in 1 .. n |-> 1], [j \in 1 .. n |-> j % 2]}

\* the entry-wise sum of two rows
RowAdd(x, y) == [j \in DOMAIN x |-> x[j] + y[j]]

\* __Distortion(sol, theta): s1 and s2 have Nz = len(sol['x']) entries,
\* r = solve(sigma, s) (sigma is the identity on the lattice), h is r plus
\* the term -1/theta * sigma.T.dot(...), which has one column per column of
\* sol['y'] and vanishes for an infinite theta; the result stacks r on h
Distortion ==
    /\ call = [f |-> "MatchODE"]
    /\ ret.ycols = Len(ret.x)
    /\ \E s1 \in FieldChoices(Len(ret.x)), s2 \in FieldChoices(Len(ret.x)),
          t1 \in FieldChoices(ret.ycols), t2 \in FieldChoices(ret.ycols) :
          /\ call' = [f |-> "Distortion", x |-> ret.x, ycols |-> ret.ycols]
          /\ ret' = [rh |-> <<s1, s2, RowAdd(t1, s1), RowAdd(t2, s2)>>,
                     s1 |-> s1, s2 |-> s2]
    /\ UNCHANGED par
    /\ UNCHANGED modelVars
    /\ UNCHANGED localVars

\* the values solve(lhs, rhs) can give at a grid point when rhs is not zero
SolLevels == {-1, 0, 2}

\* rhs = (tmp[0,:] ** 2 + tmp[1,:] ** 2) / 2 with tmp = etau - etas
EntropyRhs(etau, etas) ==
    [j \in DOMAIN etau[1] |->
        RoundDiv((etau[1][j] - etas[1][j]) * (etau[1][j] - etas[1][j])
                 + (etau[2][j] - etas[2][j]) * (etau[2][j] - etas[2][j]), 2)]

\* what solve(lhs, rhs) can return: the zero vector for a zero rhs, some
\* vector otherwise
SolveOutcomes(rhs) ==
    IF \A j \in DOMAIN rhs : rhs[j] = 0 THEN {[j \in DOMAIN rhs |-> 0]}
    ELSE {[j \in DOMAIN rhs |-> c] : c \in SolLevels}

\* the entries of a set of column indices in increasing order
RECURSIVE InOrder(_)
InOrder(S) ==
    IF S = {} THEN <<>>
    ELSE LET m == CHOOSE x \in S : \A y \in S : x <= y
         IN  <<m>> \o InOrder(S \ {m})

\* q = np.sqrt(sol[zgrid == self.zbar] * 2)
EntropyRead(sol, pinned) ==
    [k \in 1 .. Cardinality(pinned) |-> NSqrt(Num(sol[InOrder(pinned)[k]] * 2))]

\* __RelativeEntropyUS(etau, etas, zgrid) as __CalibratingTheta calls it,
\* with Distorted[2:,:] and Distorted[:2,:]: the masked columns of the
\* system are set to 1 and the masked entries of its solution are read
\* back.  With no column set to 1 the system is the singular Q, and solve
\* either raises LinAlgError or returns what the rounded elimination gives
RelativeEntropyUS ==
    /\ call.f = "Distortion"
    /\ LET etau == SubSeq(ret.rh, 3, 4)
           etas == SubSeq(ret.rh, 1, 2)
           pinned == PinnedColumns(call.x, par.zbar)
       IN  /\ call' = [f |-> "RelativeEntropyUS", etau |-> etau,
                       etas |-> etas, zgrid |-> call.x]
           /\ \/ /\ pinned = {}
                 /\ ret' = [raised |-> TRUE, pinned |-> pinned,
                            nread |-> 0, q |-> <<>>]
              \/ \E sol \in SolveOutcomes(EntropyRhs(etau, etas)) :
                    ret' = [raised |-> FALSE, pinned |-> pinned,
                            nread |-> Len(EntropyRead(sol, pinned)),
                            q |-> EntropyRead(sol, pinned)]
    /\ UNCHANGED par
    /\ UNCHANGED modelVars
    /\ UNCHANGED localVars

\* __CalibratingTheta is done with the entropy
GridDone ==
    /\ call.f = "RelativeEntropyUS"
    /\ call' = NoCall
    /\ ret' = NoCall
    /\ UNCHANGED par
    /\ UNCHANGED modelVars
    /\ UNCHANGED localVars

NextGrid == MatchGrid \/ Distortion \/ RelativeEntropyUS \/ GridDone

SpecGrid == InitGrid /\ [][NextGrid]_vars

----------------------------------------------------------------------------
(* FeynmanKac and InterpQuantile *)

(***************************************************************************)
(* The reals of the forward solve are fractions p / q in lowest terms with *)
(* q > 0, so that two of them are equal exactly when their records are.    *)
(* The arithmetic is exact, and the solution of each linear solve is       *)
(* rounded to the nearest point of a lattice, as a computed solution is    *)
(* rounded to a double.                                                    *)
(***************************************************************************)

RECURSIVE Gcd(_, _)
Gcd(x, y) == IF y = 0 THEN x ELSE Gcd(y, x % y)

\* the fraction p / q, q # 0, in lowest terms
Rat(p, q) ==
    LET g == Gcd(Abs(p), Abs(q))
        sgn == IF q < 0 THEN -1 ELSE 1
    IN  [p |-> sgn * (p \div g), q |-> sgn * (q \div g)]

RatInt(n) == [p |-> n, q |-> 1]
RatNeg(x) == [p |-> -x.p, q |-> x.q]

\* sums and products cancel common factors first, to keep the integers small
RatAdd(x, y) ==
    LET g == Gcd(x.q, y.q)
    IN  Rat(x.p * (y.q \div g) + y.p * (x.q \div g), (x.q \div g) * y.q)
RatSub(x, y) == RatAdd(x, RatNeg(y))
RatMul(x, y) ==
    LET g1 == Gcd(Abs(x.p), y.q)
        g2 == Gcd(Abs(y.p), x.q)
    IN  Rat((x.p \div g1) * (y.p \div g2), (x.q \div g2) * (y.q \div g1))
RatDiv(x, y) == RatMul(x, Rat(y.q, y.p))

\* the number of lattice points per unit that a computed solution is
\* rounded to
Resolution == 8

\* x rounded to the nearest lattice point
RatRound(x) == Rat(RoundDiv(x.p * Resolution, x.q), Resolution)

\* Dt of ExpectH, one unit of time
Dt == 1

\* T of ExpectH in units of Dt (1000 / 0.1 steps in the code)
THorizon == 2

\* the entries of A in an interior row j: the diagonal, the entry in column
\* j + 1 and the entry in column j - 1
FKDiag(sz2, dz, dt) ==
    RatAdd(RatInt(-1), RatMul(RatInt(dt), Rat(-sz2, dz * dz)))
FKUpper(mu, sz2, dz, dt) ==
    RatMul(RatInt(dt), RatAdd(RatDiv(mu, RatInt(2 * dz)), Rat(sz2, 2 * dz * dz)))
FKLower(mu, sz2, dz, dt) ==
    RatMul(RatInt(dt), RatAdd(RatDiv(RatNeg(mu), RatInt(2 * dz)),
                              Rat(sz2, 2 * dz * dz)))

\* b = -phiold[1:-1]; b[0] -= a1 * phiold[0]; b[-1] -= a2 * phiold[-1],
\* without the two boundary corrections
FKRhsNoBoundary(muz, sz2, dz, dt, phiold) ==
    [i \in 1 .. (Len(phiold) - 2) |-> RatNeg(phiold[i + 1])]

\* b = -phiold[1:-1] is a new array; b[0] -= a1 * phiold[0] and
\* b[-1] -= a2 * phiold[-1] write to it, phiold keeps its entries
FKRhs(muz, sz2, dz, dt, phiold) ==
    LET n == Len(phiold) - 2
        a1 == FKLower(muz[2], sz2, dz, dt)
        a2 == FKUpper(muz[n + 1], sz2, dz, dt)
        b0 == [i \in 1 .. n |-> RatNeg(phiold[i + 1])]
        b1 == [b0 EXCEPT ![1] = RatSub(b0[1], RatMul(a1, phiold[1]))]
    IN  [b1 EXCEPT ![n] = RatSub(b1[n], RatMul(a2, phiold[n + 2]))]

\* forward elimination of the tridiagonal system: acc holds, for the rows
\* before i, the scaled upper entry c and the scaled right-hand side g
RECURSIVE FKForward(_, _, _, _, _, _, _)
FKForward(muz, sz2, dz, dt, b, i, acc) ==
    IF i > Len(b) THEN acc
    ELSE LET l == FKLower(muz[i + 1], sz2, dz, dt)
             u == FKUpper(muz[i + 1], sz2, dz, dt)
             d == FKDiag(sz2, dz, dt)
             den == IF i = 1 THEN d ELSE RatSub(d, RatMul(l, acc[i - 1].c))
             g == IF i = 1 THEN RatDiv(b[1], den)
                  ELSE RatDiv(RatSub(b[i], RatMul(l, acc[i - 1].g)), den)
         IN  CHOOSE r \in {FKForward(muz, sz2, dz, dt, b, i + 1, a) :
                             a \in {Append(acc, [c |-> RatDiv(u, den),
                                                 g |-> g])}} : TRUE

\* back substitution: acc holds the unknowns after i
RECURSIVE FKBackward(_, _, _)
FKBackward(fw, i, acc) ==
    IF i = 0 THEN acc
    ELSE CHOOSE r \in {FKBackward(fw, i - 1, a) :
                         a \in {<<IF acc = <<>> THEN fw[i].g
                                  ELSE RatSub(fw[i].g,
                                              RatMul(fw[i].c, acc[1]))>>
                                \o acc}} : TRUE

\* spsolve(A, b) for the interior block A[1:-1, 1:-1]
Spsolve(muz, sz2, dz, dt, b) ==
    CHOOSE r \in {[i \in DOMAIN x |-> RatRound(x[i])] :
                    x \in {FKBackward(fw, Len(b), <<>>) :
                             fw \in {FKForward(muz, sz2, dz, dt, b, 1, <<>>)}}} :
        TRUE

\* one pass of the time loop: phinew from phiold, the two boundary rows
\* extrapolated
FKStep(muz, sz2, dz, dt, phiold) ==
    CHOOSE r \in {<<RatSub(RatMul(RatInt(2), x[1]), x[2])>> \o x
                    \o <<RatSub(RatMul(RatInt(2), x[Len(x)]), x[Len(x) - 1])>> :
                  x \in {Spsolve(muz, sz2, dz, dt, b) :
                           b \in {FKRhs(muz, sz2, dz, dt, phiold)}}} : TRUE

\* the columns 0 .. nsteps of sol, the first one being fintl
RECURSIVE FKColumns(_, _, _, _, _, _)
FKColumns(muz, sz2, dz, dt, nsteps, cols) ==
    IF Len(cols) > nsteps THEN cols
    ELSE CHOOSE r \in {FKColumns(muz, sz2, dz, dt, nsteps, Append(cols, phinew)) :
                         phinew \in {FKStep(muz, sz2, dz, dt, cols[Len(cols)])}} :
             TRUE

\* a FeynmanKac that leaves the initial column out of sol
FeynmanKacNoInitial(muz, sz2, zgrid, fintl, T, dt) ==
    Tail(FKColumns(muz, sz2, zgrid[2] - zgrid[1], dt, T \div dt, <<fintl>>))

\* a FeynmanKac whose loop stops one step early
FeynmanKacWithoutLastStep(muz, sz2, zgrid, fintl, T, dt) ==
    FKColumns(muz, sz2, zgrid[2] - zgrid[1], dt, T \div dt - 1, <<fintl>>)

\* FeynmanKac(muz, sigmaz, zgrid, fintl, T, Dt): sol as the sequence of its
\* int(T / Dt) + 1 columns
FeynmanKac(muz, sz2, zgrid, fintl, T, dt) ==
    FKColumns(muz, sz2, zgrid[2] - zgrid[1], dt, T \div dt, <<fintl>>)

\* what the caller's fintl holds after a run in which the corrections of
\* b were written through a view of phiold
FKInputAfterView(muz, sz2, dz, dt, fintl) ==
    LET n == Len(fintl) - 2
        b == FKRhs(muz, sz2, dz, dt, fintl)
    IN  [fintl EXCEPT ![2] = b[1], ![n + 1] = b[n]]

\* what the caller's fintl holds after a run: phiold = fintl only binds a
\* name, every later array (b, phinew, sol) is a new one, so no entry of
\* fintl is written
FKInputAfter(muz, sz2, dz, dt, fintl) == fintl

\* the segment j with x[j] <= z0 < x[j + 1] one further to the right
InterpSegmentShifted(x, z0) ==
    LET j == CHOOSE j \in 1 .. (Len(x) - 1) :
                 x[j] <= z0 /\ (z0 < x[j + 1] \/ j = Len(x) - 1)
    IN  IF j + 1 <= Len(x) - 1 THEN j + 1 ELSE j

\* the segment np.interp works in: j with x[j] <= z0 < x[j + 1], the last
\* segment for z0 = x[-1]
InterpSegment(x, z0) ==
    CHOOSE j \in 1 .. (Len(x) - 1) :
        x[j] <= z0 /\ (z0 < x[j + 1] \/ j = Len(x) - 1)

\* interp1d(x, y)(z0), linear, for x[0] <= z0 <= x[-1]:
\* slope * (z0 - x[j]) + y[j], and y[-1] at the right end
Interp1d(x, y, z0) ==
    LET j == InterpSegment(x, z0) IN
    IF z0 = x[Len(x)] THEN y[Len(x)]
    ELSE RatAdd(RatMul(RatDiv(RatSub(y[j + 1], y[j]), RatInt(x[j + 1] - x[j])),
                       RatInt(z0 - x[j])),
                y[j])

\* InterpQuantile(zgrid, mgrid, z0): one entry per column of mgrid;
\* interp1d raises ValueError for a z0 outside the grid
InterpQuantile(zgrid, mgrid, z0) ==
    IF z0 < zgrid[1] \/ z0 > zgrid[Len(zgrid)]
    THEN [raised |-> TRUE, q |-> <<>>]
    ELSE [raised |-> FALSE,
          q |-> [t \in 1 .. Len(mgrid) |-> Interp1d(zgrid, mgrid[t], z0)]]

\* a row of lattice values as a row of fractions
RatSeq(row) == [j \in DOMAIN row |-> RatInt(row[j])]

\* the coordinates InterpQuantile is called at: every lattice point of the
\* grid's range and one beyond each end
Z0Choices == (StateGrid[1] - 1) .. (StateGrid[Len(StateGrid)] + 1)

\* the initial functions of a run: the rows of FieldChoices, a larger
\* constant and a ramp
InitialChoices(n) ==
    FieldChoices(n) \cup {[j \in 1 .. n |-> 2], [j \in 1 .. n |-> j]}

\* scipy.stats.norm.ppf(prob, mean, std) for prob = 0.1, 0.5 and 0.9 given
\* in percent: mean - 1.282 std, mean, mean + 1.282 std
NormPpf(prob, mean, std) ==
    mean + RoundDiv((IF prob = 10 THEN -1282 ELSE IF prob = 50 THEN 0 ELSE 1282)
                      * std, 1000)

\* the bits of the significand of a float (53 in a double)
Mantissa == 3

RECURSIVE Pow2(_)
Pow2(n) == IF n = 0 THEN 1 ELSE 2 * Pow2(n - 1)

\* p / q, p >= 0 and q > 0, rounded to the nearest integer, a tie to the
\* even one
RoundHalfEven(p, q) ==
    LET f == p \div q
        r == p % q
    IN  IF 2 * r < q THEN f
        ELSE IF 2 * r > q THEN f + 1
        ELSE IF f % 2 = 0 THEN f ELSE f + 1

\* p / q > 0 rounded to the nearest float: the significand is scaled into
\* 2^(Mantissa - 1) .. 2^Mantissa and rounded there
RECURSIVE FlMag(_, _)
FlMag(p, q) ==
    IF p >= Pow2(Mantissa) * q THEN RatMul(RatInt(2), FlMag(p, 2 * q))
    ELSE IF p < Pow2(Mantissa - 1) * q THEN RatMul(Rat(1, 2), FlMag(2 * p, q))
    ELSE RatInt(RoundHalfEven(p, q))

\* the result of one floating-point operation whose exact value is x
Fl(x) ==
    IF x.p = 0 THEN x
    ELSE IF x.p < 0 THEN RatNeg(FlMag(-x.p, x.q))
    ELSE FlMag(x.p, x.q)

\* the array of floats a computation returns
FlSeq(q) == [t \in DOMAIN q |-> Fl(q[t])]

\* -q + c entry by entry
NegPlus(q, c) == [t \in DOMAIN q |-> Fl(RatAdd(RatNeg(q[t]), RatInt(c)))]

\* -x + y entry by entry
NegAdd(x, y) == [t \in DOMAIN x |-> Fl(RatAdd(RatNeg(x[t]), y[t]))]

\* a stored bundle: the dictionary with the three series
Bundle(name, q10, q50, q90) ==
    [name |-> name, q10 |-> q10, q50 |-> q50, q90 |-> q90]

\* the three quantile series of -InterpQuantile(x, e, z) + c as a bundle
QuantileBundle(name, x, e, z, c) ==
    Bundle(name, NegPlus(FlSeq(InterpQuantile(x, e, z[1]).q), c),
                 NegPlus(FlSeq(InterpQuantile(x, e, z[2]).q), c),
                 NegPlus(FlSeq(InterpQuantile(x, e, z[3]).q), c))

\* a misspecification price that adds the ambiguity price to h
MisspecBundleSum(name, a, h) ==
    LET sum(x, y) == [t \in DOMAIN x |-> Fl(RatAdd(x[t], y[t]))]
    IN  Bundle(name, sum(a.q10, h.q10), sum(a.q50, h.q50),
                     sum(a.q90, h.q90))

\* -a + h series by series
MisspecBundle(name, a, h) ==
    Bundle(name, NegAdd(a.q10, h.q10), NegAdd(a.q50, h.q50),
                 NegAdd(a.q90, h.q90))

\* the attributes ExpectH assigns from the four forward solves
ExpectHAssign(p, x, z, expectH1, expectH2, expectR1, expectR2) ==
    LET h1 == QuantileBundle("h1", x, expectH1, z, 0)
        h2 == QuantileBundle("h2", x, expectH2, z, 0)
        ambiguity1 == QuantileBundle("ambiguity1", x, expectR1, z, 0)
        ambiguity2 == QuantileBundle("ambiguity2", x, expectR2, z, 0)
    IN  {QuantileBundle("shock1", x, expectH1, z, p.sk[1]), h1,
         QuantileBundle("shock2", x, expectH2, z, p.sk[2]), h2,
         ambiguity1, ambiguity2,
         MisspecBundle("misspec1", ambiguity1, h1),
         MisspecBundle("misspec2", ambiguity2, h2)}

\* the second row of sigma.dot(Distorted[2:,:]) at grid point j, which is
\* sigmaz.T.dot(eta[:,j]) for eta = Distorted[2:,:]
SigmaZDot(p, rh, j) == p.sz[1] * rh[3][j] + p.sz[2] * rh[4][j]

\* the drift of ExpectH: drift[1,:] + alphaz - betaz * v['x']
MuZ(p, x, rh) ==
    [j \in DOMAIN x |-> SigmaZDot(p, rh, j) + p.alphaz - p.betaz * x[j]]

\* ExpectH on the grid x and the four rows rh of self.Distorted: whether
\* interp1d raised, and the attributes assigned otherwise
ExpectHStored(p, x, rh) ==
    LET muz == RatSeq(MuZ(p, x, rh))
        mean == RoundDiv(p.alphaz, p.betaz)
        std == RoundSqrt(RoundDiv(p.sz2, 2 * p.betaz))
        z == <<NormPpf(10, mean, std), NormPpf(50, mean, std),
               NormPpf(90, mean, std)>>
    IN  IF \E k \in 1 .. 3 : z[k] < x[1] \/ z[k] > x[Len(x)]
        THEN [raised |-> TRUE, stored |-> {}]
        ELSE CHOOSE r \in
               {[raised |-> FALSE,
                 stored |-> ExpectHAssign(p, x, z, e1, e2, e3, e4)] :
                  e1 \in {FeynmanKac(muz, p.sz2, x, RatSeq(rh[3]), THorizon, Dt)},
                  e2 \in {FeynmanKac(muz, p.sz2, x, RatSeq(rh[4]), THorizon, Dt)},
                  e3 \in {FeynmanKac(muz, p.sz2, x, RatSeq(rh[1]), THorizon, Dt)},
                  e4 \in {FeynmanKac(muz, p.sz2, x, RatSeq(rh[2]), THorizon, Dt)}} :
               TRUE

\* the values of alphaz the forward solves are run with: the default, and
\* one whose quantiles lie outside the grid
FKAlphas == {0, AlphaMax}

InitFK == \E az \in FKAlphas : Construct(Num(10), GridParams(az, 1))

\* ExpectH on a model holding the grid and a drift-distortion array; ret
\* shows the attributes it assigned
ExpectHSeries ==
    /\ call = NoCall
    /\ \E r1 \in FieldChoices(Len(StateGrid)), r2 \in FieldChoices(Len(StateGrid)),
          h1 \in FieldChoices(Len(StateGrid)), h2 \in FieldChoices(Len(StateGrid)) :
          /\ call' = [f |-> "ExpectH", x |-> StateGrid, rh |-> <<r1, r2, h1, h2>>]
          /\ ret' = ExpectHStored(par, StateGrid, <<r1, r2, h1, h2>>)
          /\ bundles' = (bundles \/ ~ret'.raised)
          /\ writes' = IF ret'.raised THEN writes
                       ELSE Written(writes, {"bundles"})
    /\ UNCHANGED par
    /\ UNCHANGED <<qus, theta, status, dvErr, qErr, dv0, v, Distorted, hl,
                   bounds, drift>>
    /\ UNCHANGED localVars


\* a first run of FeynmanKac on the caller's arrays
RunFK ==
    /\ call = NoCall
    /\ \E mu \in FieldChoices(Len(StateGrid)),
          f0 \in InitialChoices(Len(StateGrid)) :
          LET dz == StateGrid[2] - StateGrid[1] IN
          /\ call' = [f |-> "FeynmanKac", muz |-> RatSeq(mu),
                      zgrid |-> StateGrid, given |-> RatSeq(f0),
                      fintl |-> FKInputAfter(RatSeq(mu), par.sz2, dz, Dt,
                                             RatSeq(f0)),
                      run |-> 1]
          /\ ret' = [sol |-> FeynmanKac(RatSeq(mu), par.sz2, StateGrid,
                                        RatSeq(f0), THorizon, Dt),
                     first |-> <<>>]
    /\ UNCHANGED par
    /\ UNCHANGED modelVars
    /\ UNCHANGED localVars

\* a second run on the same arrays, as the first run left them
RunFKAgain ==
    /\ call.f = "FeynmanKac"
    /\ call.run = 1
    /\ call' = [call EXCEPT !.run = 2,
                  !.fintl = FKInputAfter(call.muz, par.sz2,
                                         call.zgrid[2] - call.zgrid[1], Dt,
                                         call.fintl)]
    /\ ret' = [sol |-> FeynmanKac(call.muz, par.sz2, call.zgrid, call.fintl,
                                  THorizon, Dt),
               first |-> ret.sol]
    /\ UNCHANGED par
    /\ UNCHANGED modelVars
    /\ UNCHANGED localVars

\* InterpQuantile on the array a run returned
RunInterp ==
    /\ call.f = "FeynmanKac"
    /\ \E z0 \in Z0Choices :
          /\ call' = [f |-> "InterpQuantile", zgrid |-> call.zgrid,
                      mgrid |-> ret.sol, z0 |-> z0]
          /\ ret' = InterpQuantile(call.zgrid, ret.sol, z0)
    /\ UNCHANGED par
    /\ UNCHANGED modelVars
    /\ UNCHANGED localVars

\* the caller is done with the arrays
FKDone ==
    /\ call.f \in {"FeynmanKac", "InterpQuantile", "ExpectH"}
    /\ call' = NoCall
    /\ ret' = NoCall
    /\ UNCHANGED par
    /\ UNCHANGED modelVars
    /\ UNCHANGED localVars

NextFK == RunFK \/ RunFKAgain \/ RunInterp \/ ExpectHSeries \/ FKDone

SpecFK == InitFK /\ [][NextFK]_vars

-----------------------------------------------------------------------------
(* The search for the slope at the kink in __MatchODE *)

\* the largest root nu that ApproxBound is given
NuMax == 3

\* the roots nu of the boundary system
BoundRoots == (-1) .. NuMax

\* the smallest element where the largest is wanted
SetLeast(S) == CHOOSE x \in S : \A y \in S : x <= y

SetMax(S) == CHOOSE x \in S : \A y \in S : y <= x
SetMin(S) == CHOOSE x \in S : \A y \in S : x <= y

\* x <= y for fractions with positive denominators
RatLe(x, y) == x.p * y.q <= y.p * x.q

\* np.linspace(start, stop, num): start + i * step with step =
\* (stop - start) / (num - 1), the last point being stop itself
Linspace(start, stop, num) ==
    LET step == RatDiv(RatSub(stop, start), RatInt(num - 1))
    IN  [i \in 1 .. num |->
            IF i = num THEN stop
            ELSE RatAdd(start, RatMul(RatInt(i - 1), step))]

\* dv0_lists
Dv0Lists(dvl, dvr) ==
    LET fifth == RatMul(Rat(1, 5), RatSub(dvl, dvr))
    IN  Linspace(RatAdd(dvr, fifth), RatSub(dvl, fifth), 5)

\* the values v0Diff may return: the jump of the value function at 0, NaN
\* when the boundary-value solver hands back NaN
V0DiffLevels == {Num(-1), Num(1), Num(2), NaN}

\* ApproxBound on the solutions sympy returns, of which some may have a
\* root that is not real: astype(float) raises on such a solution and
\* bounds[:,0] raises on an empty list, before dvl is assigned; otherwise
\* dvl is the largest and dvr the smallest root
ApproxBoundRoots ==
    /\ call = NoCall
    /\ \E roots \in SUBSET BoundRoots, complex \in BOOLEAN :
          IF complex \/ roots = {}
          THEN /\ call' = [f |-> "ApproxBoundRaised", roots |-> roots,
                           complex |-> complex, before |-> bounds]
               /\ UNCHANGED bounds
          ELSE /\ call' = [f |-> "ApproxBound", roots |-> roots,
                           complex |-> FALSE,
                           dvl |-> SetMax(roots), dvr |-> SetMin(roots)]
               /\ bounds' = TRUE
    /\ ret' = NoCall
    /\ UNCHANGED par
    /\ UNCHANGED <<qus, theta, status, dvErr, qErr, dv0, v, Distorted, hl,
                   drift, bundles, writes>>
    /\ UNCHANGED localVars

\* __MatchODE without dv0guess: v0Diff at every point of dv0_lists, then the
\* seed of fsolve is the point np.argmin picks
MatchODESearch ==
    /\ call.f = "ApproxBound"
    /\ \E dv0_lists \in {Dv0Lists(RatInt(call.dvl), RatInt(call.dvr))},
          g \in [1 .. 5 -> V0DiffLevels] :
          LET gridsvalue == [i \in DOMAIN dv0_lists |-> g[i]]
              minIdx == Argmin(AbsAll(gridsvalue))
          IN  /\ \A i, j \in DOMAIN dv0_lists :
                    dv0_lists[i] = dv0_lists[j] => g[i] = g[j]
              /\ call' = [f |-> "v0DiffSearch", dvl |-> call.dvl,
                          dvr |-> call.dvr, dv0_lists |-> dv0_lists,
                          gridsvalue |-> gridsvalue]
              /\ ret' = [minIdx |-> minIdx, dv0guess |-> dv0_lists[minIdx]]
    /\ UNCHANGED par
    /\ UNCHANGED modelVars
    /\ UNCHANGED localVars

\* __MatchODE with dv0guess: the guess is the seed, v0Diff is not tried
MatchODEGuess ==
    /\ call.f = "ApproxBound"
    /\ \E guess \in BoundRoots :
          /\ call' = [f |-> "v0DiffSearch", dvl |-> call.dvl,
                      dvr |-> call.dvr, dv0_lists |-> <<>>,
                      gridsvalue |-> <<>>]
          /\ ret' = [minIdx |-> 0, dv0guess |-> RatInt(guess)]
    /\ UNCHANGED par
    /\ UNCHANGED modelVars
    /\ UNCHANGED localVars

SearchDone ==
    /\ call.f \in {"v0DiffSearch", "ApproxBoundRaised"}
    /\ call' = NoCall
    /\ ret' = NoCall
    /\ UNCHANGED par
    /\ UNCHANGED modelVars
    /\ UNCHANGED localVars

NextMatch == ApproxBoundRoots \/ MatchODESearch \/ MatchODEGuess \/ SearchDone

SpecMatch == Init /\ [][NextMatch]_vars

-----------------------------------------------------------------------------
(* HL and UpdatingDrift on the arrays they store *)

\* np.log(2), in thousandths of the unit the Chernoff rate is counted in
Ln2 == 693

\* the rates -res.fun that the minimization over s may end with
ChernoffRates == {1, 2}

\* the evaluations of Rhos, one eigen-decomposition each, that one
\* minimization makes at most
MaxEigs == 2

\* rho divided by np.log(2)
HalfLifeInverted(rho) == Num(RoundDiv(rho, Ln2))

\* np.log(2) / rho
HalfLife(rho) == Num(RoundDiv(Ln2, rho))

\* [0.01, v1].dot(sigma).dot(sigma.T).dot([[0.01],[v1]]): the squared norm
\* of 0.01 * sigmak + v1 * sigmaz
QuadForm(p, dv100) ==
    (p.sk[1] + dv100 * p.sz[1]) * (p.sk[1] + dv100 * p.sz[1])
      + (p.sk[2] + dv100 * p.sz[2]) * (p.sk[2] + dv100 * p.sz[2])

\* 1 / (2 * theta) * temp; 1 / inf is 0
OverTwoTheta(th, temp) ==
    IF th = Inf THEN Num(0) ELSE NDiv(Num(temp), NMul(Num(2), th))

\* the second entry of __HJBODE(z, v, theta) for a column v of v['y']: only
\* v[0] and v[1] are read
HJBODE(p, z, col, th) ==
    LET v0 == col[1]
        v1 == col[2]
        min_val == Mined(p, <<z>>, <<v1>>, TRUE).res[1]
    IN  NMul(NDiv(Num(2), Num(p.sz2)),
             NAdd(NSub(Num(p.delta * v0), min_val),
                  OverTwoTheta(th, QuadForm(p, v1))))

\* column j of an array given by its rows
Column(y, j) == [k \in DOMAIN y |-> y[k][j]]

\* the first row of sigma.dot(Distorted[2:,:]) at grid point j, in the
\* units of sk
SigmaKDot(p, rh, j) == p.sk[1] * rh[3][j] + p.sk[2] * rh[4][j]

\* self.driftk
DriftK(p, x, rh) ==
    [j \in DOMAIN x |->
        SigmaKDot(p, rh, j) + p.alphak + p.betak * (x[j] - p.zbar)]

\* self.driftz
DriftZ(p, x, rh) ==
    [j \in DOMAIN x |->
        SigmaZDot(p, rh, j) + p.alphaz - p.betaz * (x[j] - p.zbar)]

\* the drift in the rows of Q of __RelativeEntropyUS, etau = Distorted[2:,:]
EntropyDrift(p, zgrid, rh) ==
    [j \in DOMAIN zgrid |->
        SigmaZDot(p, rh, j) + p.alphaz - p.betaz * zgrid[j]]

\* the drift in the rows of Q of Rhos(s), eta = Distorted[2:,:], for s = 0
\* and s = 1
ChernoffDrift(p, x, rh, s) ==
    [j \in DOMAIN x |->
        s * SigmaZDot(p, rh, j) + p.alphaz - p.betaz * x[j]]

\* np.vstack([self.v['y'], d2v])
StackOnAll(y, d2v) == Append(y, d2v)

\* np.vstack([self.v['y'][:2,:], d2v])
StackOnTwo(y, d2v) == <<y[1], y[2], d2v>>

\* r = solve(sigma, s) for sigma = [sigmak.T; sigmaz.T], in the units of sk:
\* the two rows of Cramer's rule
SolveSigma(p, s1, s2) ==
    LET det == p.sk[1] * p.sz[2] - p.sk[2] * p.sz[1]
    IN  <<[j \in DOMAIN s1 |->
              RoundDiv(p.sz[2] * s1[j] - p.sk[2] * s2[j], det)],
          [j \in DOMAIN s1 |->
              RoundDiv(p.sk[1] * s2[j] - p.sz[1] * s1[j], det)]>>

\* row k of -1 / theta * sigma.T.dot([0.01; v1]) at one grid point
HOffset(p, th, v1, k) ==
    IF th = Inf THEN 0 ELSE RoundDiv(-(p.sk[k] + p.sz[k] * v1), th.n)

\* rh of __Distortion: r over h = offset + r
DistortionRows(p, th, y1, s1, s2) ==
    LET r == SolveSigma(p, s1, s2)
    IN  <<r[1], r[2],
          [j \in DOMAIN y1 |-> HOffset(p, th, y1[j], 1) + r[1][j]],
          [j \in DOMAIN y1 |-> HOffset(p, th, y1[j], 2) + r[2][j]]>>

\* the values of alphaz the steps are run with; zbar = alphaz / betaz
StepAlphas == {0, Dz}

InitSteps == \E az \in StepAlphas : Construct(Inf, GridParams(az, 1))

\* HL, called once on a model: the matched solution res with its grid and
\* two rows, the distortion and s1, s2 are stored; __ChernoffEntropy is
\* called only under calHL
HLArrays(calHL) ==
    /\ pc = "idle"
    /\ theta # None
    /\ bounds
    /\ ~v.set
    /\ \E negst \in BvpStatus, posst \in BvpStatus,
          y0 \in FieldChoices(Len(StateGrid)),
          y1 \in FieldChoices(Len(StateGrid)),
          s1 \in FieldChoices(Len(StateGrid)),
          s2 \in FieldChoices(Len(StateGrid)),
          rho \in ChernoffRates, n \in 1 .. MaxEigs :
          /\ v' = MatchODE(negst, posst)
          /\ hl' = IF calHL THEN HalfLife(rho) ELSE None
          /\ call' = [f |-> "HL", calHL |-> calHL]
          /\ ret' = [x |-> StateGrid, y |-> <<y0, y1>>,
                     rh |-> DistortionRows(par, theta, y1, s1, s2),
                     s1 |-> s1, s2 |-> s2,
                     rho |-> IF calHL THEN rho ELSE 0,
                     eigs |-> IF calHL THEN n ELSE 0,
                     driftk |-> <<>>, driftz |-> <<>>]
    /\ Distorted' = TRUE
    /\ writes' = Written(writes, {"v", "vy", "Distorted", "s1", "s2", "hl"})
    /\ UNCHANGED <<qus, theta, status, dvErr, qErr, dv0, bounds, drift,
                   bundles>>
    /\ UNCHANGED localVars
    /\ UNCHANGED par

\* UpdatingDrift: the two drifts, and v['y'] replaced by its first two rows
\* with the second derivative under them
UpdatingDriftArrays ==
    /\ pc = "idle"
    /\ v.set
    /\ call.f \in {"HL", "UpdatingDrift"}
    /\ LET d2v == [j \in DOMAIN ret.x |->
                      HJBODE(par, ret.x[j], Column(ret.y, j), theta)]
       IN  ret' = [ret EXCEPT !.driftk = DriftK(par, ret.x, ret.rh),
                              !.driftz = DriftZ(par, ret.x, ret.rh),
                              !.y = StackOnTwo(ret.y, d2v)]
    /\ call' = [f |-> "UpdatingDrift"]
    /\ drift' = TRUE
    /\ v' = [v EXCEPT !.rows = 3]
    /\ writes' = Written(writes, {"drift", "vy"})
    /\ UNCHANGED <<qus, theta, status, dvErr, qErr, dv0, Distorted, hl,
                   bounds, bundles>>
    /\ UNCHANGED localVars
    /\ UNCHANGED par

NextSteps ==
    \/ ApproxBound
    \/ SolveThetaInf
    \/ \E calHL \in BOOLEAN : HLArrays(calHL)
    \/ UpdatingDriftArrays

SpecSteps == InitSteps /\ [][NextSteps]_vars

----------------------------------------------------------------------------
(* Claims about the minimizer and the grid *)

\* a call of __mined has returned
MinedCall == call.f = "mined"

\* some discriminant is negative for the i-th entry of the call: the s2
\* quadratic's, or __S1's at either root
NegativeDisc(i) ==
    LET z == call.z[i]
        dv100 == call.dv[i]
        s21 == S2Root(par, z, dv100, 1)
        s22 == S2Root(par, z, dv100, -1)
    IN  \/ S2Disc(par, z, dv100) < 0
        \/ IsNum(s21) /\ S1Disc(par, s21.n, z) < 0
        \/ IsNum(s22) /\ S1Disc(par, s22.n, z) < 0

\* the objective at the root s21 (sign = 1) or s22 (sign = -1) for the
\* i-th entry of the call
ObjectiveAt(i, sign) ==
    Objective(par, S2Root(par, call.z[i], call.dv[i], sign),
              call.z[i], call.dv[i])

\* C7: whenever a discriminant is negative for either candidate root, the
\* minimized objective that __mined returns is NaN, in the scalar and in the
\* vectorized call alike.
C7_NegativeDiscriminantGivesNaN ==
    MinedCall =>
        \A i \in DOMAIN call.dv : NegativeDisc(i) => IsNaN(ret.res[i])

\* C8: for an input with real roots the returned objective is at most the
\* objective at s21 and at most the objective at s22, in the scalar call and
\* element by element in the vectorized call.
C8_ReturnedAtMostBothRoots ==
    MinedCall =>
        \A i \in DOMAIN call.dv :
            ~NegativeDisc(i) =>
                /\ FLe(ret.res[i], ObjectiveAt(i, 1))
                /\ FLe(ret.res[i], ObjectiveAt(i, -1))

\* a scalar call with real roots where the objective at s22 is the smaller
C8_Witness ==
    /\ MinedCall
    /\ call.scalar
    /\ ~NegativeDisc(1)
    /\ FLt(ObjectiveAt(1, -1), ObjectiveAt(1, 1))
    /\ ret.res[1] = ObjectiveAt(1, -1)

\* C9 as stated: every call shape gets back both the minimized objective
\* and the selected control.
C9_BothReturnedForEveryShape ==
    MinedCall =>
        /\ ret.kind = "tuple"
        /\ Len(ret.res) = Len(call.dv)
        /\ Len(ret.ctrl) = Len(call.dv)

\* C9 amended: a scalar call gets back the pair of the minimized objective
\* and the selected control; a call with an array of slopes gets back only
\* the array of minimized objectives, one per entry, and no control.
C9_PairForScalarArrayForVector ==
    MinedCall =>
        IF call.scalar
        THEN ret.kind = "tuple" /\ Len(ret.res) = 1 /\ Len(ret.ctrl) = 1
        ELSE ret.kind = "array" /\ Len(ret.res) = Len(call.dv)
             /\ ret.ctrl = <<>>

\* a vectorized call of two entries has returned its array
C9_Witness ==
    /\ MinedCall
    /\ ~call.scalar
    /\ Len(call.dv) = 2
    /\ ret.kind = "array"
    /\ Len(ret.res) = 2

\* C10: whatever alphaz and betaz, the grid handed to the relative-entropy
\* evaluator contains zbar exactly, exactly one column is pinned and exactly
\* one solution entry is read back.
C10_GridContainsMeanReversionPoint ==
    (call.f = "RelativeEntropyUS") =>
        /\ \E j \in DOMAIN call.zgrid : call.zgrid[j] = par.zbar
        /\ Cardinality(ret.pinned) = 1
        /\ ret.nread = 1

\* C11: when the two distortion fields handed to the relative-entropy
\* evaluator are equal at every grid point, it returns exactly 0.
C11_ZeroDistortionZeroEntropy ==
    (call.f = "RelativeEntropyUS" /\ call.etau = call.etas) =>
        (~ret.raised /\ ret.q = <<Num(0)>>)

\* the drift of the latest FeynmanKac call is zero at every grid point
ZeroDrift == \A j \in DOMAIN call.muz : call.muz[j] = RatInt(0)

\* the initial function of the latest FeynmanKac call is the constant c
ConstantInitial(c) == \A j \in DOMAIN call.given : call.given[j] = RatInt(c)

C13_ExactAtNodes ==
    (call.f = "InterpQuantile") =>
        \A i \in DOMAIN call.zgrid :
            (call.zgrid[i] = call.z0) =>
                /\ ~ret.raised
                /\ Len(ret.q) = Len(call.mgrid)
                /\ \A t \in DOMAIN call.mgrid : ret.q[t] = call.mgrid[t][i]

\* InterpQuantile was called at an interior node of an array that is not
\* linear in z around it
C13_Witness ==
    /\ call.f = "InterpQuantile"
    /\ ~ret.raised
    /\ \E i \in 2 .. (Len(call.zgrid) - 2) :
          /\ call.zgrid[i] = call.z0
          /\ ret.q[2] = call.mgrid[2][i]
          /\ RatSub(call.mgrid[2][i + 1], call.mgrid[2][i])
               # RatSub(call.mgrid[2][i + 2], call.mgrid[2][i + 1])

SixBundles ==
    {"shock1", "shock2", "ambiguity1", "ambiguity2", "misspec1", "misspec2"}

\* every stored bundle has its three series, one entry per time column
FullSeries ==
    \A b \in ret.stored :
        /\ Len(b.q10) = THorizon \div Dt + 1
        /\ Len(b.q50) = THorizon \div Dt + 1
        /\ Len(b.q90) = THorizon \div Dt + 1

\* C16 as stated: after ExpectH completes the model holds exactly the six
\* bundles shock1, shock2, ambiguity1, ambiguity2, misspec1, misspec2, each
\* with q10, q50 and q90 of T / Dt + 1 entries.
C16_ExactlySixBundles ==
    (call.f = "ExpectH" /\ ~ret.raised) =>
        /\ {b.name : b \in ret.stored} = SixBundles
        /\ FullSeries

\* C16 amended: after ExpectH completes the model holds the six bundles and,
\* besides them, the two bundles h1 and h2 of the worst-case distortion
\* quantiles that the misspecification prices are computed from; each of
\* the eight has q10, q50 and q90, and every series has T / Dt + 1 entries.
C16_SixBundlesAndTwoAuxiliary ==
    (call.f = "ExpectH" /\ ~ret.raised) =>
        /\ {b.name : b \in ret.stored} = SixBundles \cup {"h1", "h2"}
        /\ Cardinality(ret.stored) = 8
        /\ FullSeries
        /\ bundles

\* ExpectH has completed on a distortion array that is not constant
C16_Witness ==
    /\ call.f = "ExpectH"
    /\ ~ret.raised
    /\ call.rh[3][1] # call.rh[3][2]
    /\ Cardinality(ret.stored) = 8
    /\ \E b \in ret.stored : b.name = "misspec1" /\ Len(b.q50) = THorizon + 1

\* the run of the five methods has ended
RunComplete == bundles

\* the fields assigned by one method and by nothing else
OnceFields == {"theta", "v", "Distorted", "s1", "s2", "hl", "drift", "bundles"}

\* C15 as stated: during one run of ApproxBound, solvetheta, HL,
\* UpdatingDrift, ExpectH every field of the model is written exactly once.
C15_EveryFieldWrittenOnce ==
    /\ \A f \in Fields : writes[f] <= 1
    /\ RunComplete => \A f \in Fields : writes[f] = 1

\* C15 amended: during one run theta, v, Distorted, s1, s2, hl, the drift
\* functions and the quantile bundles are each written exactly once; the
\* value array of v is written twice, by HL and again by UpdatingDrift;
\* status is written once when the calibration is judged solved and not at
\* all otherwise; dvErr and qErr are written once per evaluation that the
\* root-finder makes, at least twice for a finite target and never for an
\* infinite one.
C15_WritesOfOneRun ==
    /\ \A f \in OnceFields : writes[f] <= 1
    /\ writes["status"] <= 1
    /\ writes["dvErr"] = writes["qErr"]
    /\ RunComplete =>
          /\ \A f \in OnceFields : writes[f] = 1
          /\ writes["vy"] = 2
          /\ writes["status"] = status
          /\ qus = Inf => writes["dvErr"] = 0
          /\ qus # Inf => writes["dvErr"] >= 2

\* a run on a finite target has ended unsolved
C15_Witness ==
    /\ RunComplete
    /\ qus # Inf
    /\ status = 0
    /\ writes["dvErr"] >= 2
    /\ writes["vy"] = 2
    /\ writes["hl"] = 1

\* C17: the matched grid is strictly increasing and contains the kink 0
\* exactly once, only the first point of the positive half being dropped;
\* the value-function array, the four-row distortion array, s1 and s2 have
\* as many columns or entries as the grid has points.
C17_GridAndArrayShapes ==
    /\ (call.f = "MatchODE") =>
          /\ \A j \in 1 .. (Len(ret.x) - 1) : ret.x[j] < ret.x[j + 1]
          /\ Cardinality({j \in DOMAIN ret.x : ret.x[j] = 0}) = 1
          /\ Len(ret.x) = Len(XNeg) + Len(XPos) - 1
          /\ {ret.x[j] : j \in DOMAIN ret.x}
               = {XNeg[j] : j \in DOMAIN XNeg} \cup {XPos[j] : j \in DOMAIN XPos}
          /\ ret.ycols = Len(ret.x)
    /\ (call.f = "Distortion") =>
          /\ Len(ret.rh) = 4
          /\ \A k \in 1 .. 4 : Len(ret.rh[k]) = Len(call.x)
          /\ call.ycols = Len(call.x)
          /\ Len(ret.s1) = Len(call.x)
          /\ Len(ret.s2) = Len(call.x)

\* the distortion of a matched solution has been computed on the grid of
\* 2 * NHalf + 1 points
C17_Witness ==
    /\ call.f = "Distortion"
    /\ Len(call.x) = 2 * NHalf + 1
    /\ call.x[NHalf + 1] = 0
    /\ Len(ret.rh) = 4
    /\ Len(ret.s1) = 2 * NHalf + 1

\* the candidates of a search and their spacing
Searched == call.f = "v0DiffSearch" /\ call.dv0_lists # <<>>
Fifth == RatMul(Rat(1, 5), RatInt(call.dvl - call.dvr))

\* the five candidates are evenly spaced from dvr + 0.2 (dvl - dvr) to
\* dvl - 0.2 (dvl - dvr) and lie inside [dvr, dvl]
FiveCandidates ==
    Searched =>
        /\ Len(call.dv0_lists) = 5
        /\ Len(call.gridsvalue) = 5
        /\ call.dv0_lists[1] = RatAdd(RatInt(call.dvr), Fifth)
        /\ call.dv0_lists[5] = RatSub(RatInt(call.dvl), Fifth)
        /\ \A i \in 1 .. 3 :
              RatSub(call.dv0_lists[i + 1], call.dv0_lists[i])
                = RatSub(call.dv0_lists[i + 2], call.dv0_lists[i + 1])
        /\ \A i \in 1 .. 5 :
              /\ RatLe(RatInt(call.dvr), call.dv0_lists[i])
              /\ RatLe(call.dv0_lists[i], RatInt(call.dvl))

\* C18: with no initial guess the kink matching evaluates g at exactly five
\* evenly spaced candidates, the first dvr + 0.2 (dvl - dvr) and the last
\* dvl - 0.2 (dvl - dvr), all inside [dvr, dvl], and seeds the root-finder
\* with the candidate of smallest |g|, the earliest one on ties.
C18_SeedHasSmallestMismatch ==
    /\ FiveCandidates
    /\ Searched =>
          /\ ret.dv0guess = call.dv0_lists[ret.minIdx]
          /\ \A j \in 1 .. 5 :
                IsNum(call.gridsvalue[j]) =>
                    /\ IsNum(call.gridsvalue[ret.minIdx])
                    /\ Abs(call.gridsvalue[ret.minIdx].n)
                         <= Abs(call.gridsvalue[j].n)
                    /\ (j < ret.minIdx =>
                          Abs(call.gridsvalue[ret.minIdx].n)
                            < Abs(call.gridsvalue[j].n))

\* the same statement over the searches in which every mismatch is a number
C18_SeedWhenAllNumbers ==
    (Searched /\ \A j \in 1 .. 5 : IsNum(call.gridsvalue[j])) =>
        C18_SeedHasSmallestMismatch

\* C19: after solvetheta with a finite target the recorded dvErr and qErr are
\* the residuals at the final theta stored in the model, not those of another
\* theta the root-finder evaluated last.  When fsolve has returned, theta is
\* stored and dvErr, qErr are those of the call at lastTheta.
C19_DiagnosticsAtFinalTheta ==
    (pc = "check" /\ ~IsInfTarget(qus)) => theta = Num(lastTheta)

\* the calls of the pipeline made after the grid search
RootFinderCalls == nfev - Len(thetalist)

\* solvetheta is past its grid search
PastGrid == pc \in ({"seeded", "check"} \cup FsolveStages)

\* every grid candidate is evaluated once before the root-finder starts
EightGridCalls ==
    /\ (pc = "grid") => (nfev = Len(values) /\ nfev <= Len(thetalist))
    /\ (pc = "seeded") => (nfev = Len(thetalist))

\* at the cap fsolve hands back its iterate, which becomes theta
ReturnsAtCap ==
    [][(pc = "trial" /\ HybrdCalls >= MaxFev) =>
          (pc' = "check" /\ theta' = Num(fx))]_vars

\* a running solvetheta returns with theta set
Terminates == (pc = "grid") ~> SolveThetaDone

\* C20: solvetheta with a finite target always terminates; it evaluates the
\* pipeline once for each of the 8 grid candidates and then at most 20 more
\* times inside the root-finder, and at the cap it returns the root-finder's
\* estimate as theta.  This is the bound on the number of calls.
C20_AtMostMaxFevInRootFinder ==
    /\ EightGridCalls
    /\ PastGrid => RootFinderCalls <= MaxFev

\* C20 with the number of calls fsolve can make: the call that checks the
\* shape and up to maxfev + 1 calls of the MINPACK routine
C20_TerminatesWithinCalls ==
    /\ [](EightGridCalls /\ (PastGrid => RootFinderCalls <= MaxFev + 2))
    /\ ReturnsAtCap
    /\ Terminates

\* fsolve has returned after its largest number of calls
C20_Witness ==
    /\ pc = "check"
    /\ ~IsInfTarget(qus)
    /\ RootFinderCalls = MaxFev + 2
    /\ theta = Num(fx)

\* C21: a pipeline step called before its predecessor has completed on the
\* model fails and writes no result field, so the result fields are populated
\* only in the order ApproxBound, solvetheta, HL, UpdatingDrift, ExpectH.
C21_FieldsPopulatedInOrder ==
    /\ (theta # None) => bounds
    /\ v.set => (theta # None)
    /\ drift => v.set
    /\ bundles => drift

\* the steps that do fail out of order: a finite-target solvetheta needs the
\* bounds, HL needs theta and the bounds, UpdatingDrift and ExpectH need the
\* matched solution of HL
C21_StepsThatNeedTheirInputs ==
    /\ (theta # None /\ ~IsInfTarget(qus)) => bounds
    /\ v.set => (theta # None /\ bounds)
    /\ drift => v.set
    /\ bundles => v.set

\* C22: HL always stores the matched solution, the drift distortion, s1 and
\* s2; the Chernoff minimization runs only when calHL is true, and then hl
\* is ln(2) over the Chernoff rate; when calHL is false hl is None and no
\* eigen-decomposition is made.
C22_HalfLifeOnDemand ==
    (call.f = "HL") =>
        /\ v.set
        /\ Distorted
        /\ ret.x = StateGrid /\ Len(ret.y) = 2 /\ Len(ret.rh) = 4
        /\ Len(ret.s1) = Len(ret.x) /\ Len(ret.s2) = Len(ret.x)
        /\ \A f \in {"v", "Distorted", "s1", "s2", "hl"} : writes[f] >= 1
        /\ call.calHL =>
              /\ ret.eigs >= 1
              /\ hl = Num(RoundDiv(Ln2, ret.rho))
        /\ ~call.calHL => (hl = None /\ ret.eigs = 0)

\* HL has run with the half-life and, on another model, without it
C22_Witness ==
    /\ call.f = "HL"
    /\ call.calHL
    /\ ret.eigs = MaxEigs
    /\ hl = Num(RoundDiv(Ln2, 2))

C22_WitnessWithoutHalfLife ==
    call.f = "HL" /\ ~call.calHL /\ hl = None /\ v.set

\* C23: FeynmanKac returns one row per grid point and int(T / Dt) + 1
\* columns, the first column being the initial function, and leaves the
\* caller's initial-function array as it was, so that the rows of Distorted
\* which ExpectH hands in are unchanged.
C23_ShapeFirstColumnAndInput ==
    /\ (call.f = "FeynmanKac") =>
          /\ Len(ret.sol) = THorizon \div Dt + 1
          /\ \A t \in DOMAIN ret.sol : Len(ret.sol[t]) = Len(call.zgrid)
          /\ ret.sol[1] = call.given
          /\ call.fintl = call.given
    /\ (call.f = "ExpectH") =>
          \A k \in 1 .. 4 :
              FKInputAfter(RatSeq(MuZ(par, call.x, call.rh)), par.sz2,
                           call.x[2] - call.x[1], Dt, RatSeq(call.rh[k]))
                = RatSeq(call.rh[k])

\* a run on a ramp has returned columns that differ from the initial one
C23_Witness ==
    /\ call.f = "FeynmanKac"
    /\ call.run = 1
    /\ call.given[1] # call.given[2]
    /\ ret.sol[1] = call.given
    /\ ret.sol[2] # ret.sol[1]
    /\ Len(ret.sol) = THorizon \div Dt + 1

\* C24: ApproxBound sets dvl to the largest and dvr to the smallest root nu
\* of the solutions of the boundary system, so dvl >= dvr after every
\* successful call; when a root is not real it raises and stores no bounds.
C24_ExtremeRootsOrRaise ==
    /\ (call.f = "ApproxBound") =>
          /\ call.dvl \in call.roots
          /\ call.dvr \in call.roots
          /\ \A r \in call.roots : call.dvr <= r /\ r <= call.dvl
          /\ call.dvl >= call.dvr
          /\ bounds
    /\ (call.f = "ApproxBoundRaised") =>
          /\ call.complex \/ call.roots = {}
          /\ bounds = call.before
    /\ (call.f \in {"ApproxBound", "ApproxBoundRaised"} /\ call.roots # {}) =>
          (call.complex <=> call.f = "ApproxBoundRaised")

\* bounds stored from several roots, and a call that raised on a fresh model
C24_Witness ==
    /\ call.f = "ApproxBound"
    /\ Cardinality(call.roots) >= 3
    /\ call.dvl = NuMax
    /\ call.dvl > call.dvr

C24_WitnessRaised ==
    call.f = "ApproxBoundRaised" /\ call.complex /\ call.roots # {} /\ ~bounds

\* the fields of the model and the arrays they hold
StoredFields ==
    <<theta, status, dvErr, qErr, dv0, v, Distorted, hl, bounds, drift,
      bundles, ret>>

\* C25: UpdatingDrift leaves the level and first-derivative rows of the
\* matched solution unchanged and only adds the second derivative as a third
\* row; a second call yields the same model state as the first (the value
\* array keeps exactly 3 rows).
C25_UpdatingDriftIdempotent ==
    [][(call'.f = "UpdatingDrift") =>
          /\ ret'.x = ret.x
          /\ ret'.y[1] = ret.y[1]
          /\ ret'.y[2] = ret.y[2]
          /\ Len(ret'.y) = 3
          /\ v'.rows = 3
          /\ (call.f = "UpdatingDrift") => (StoredFields' = StoredFields)]_vars

\* UpdatingDrift has been called twice on a solution with a curved level row
C25_Witness ==
    /\ call.f = "UpdatingDrift"
    /\ writes["drift"] = 2
    /\ Len(ret.y) = 3
    /\ ret.y[1][1] # ret.y[1][2]
    /\ \E j \in DOMAIN ret.x : IsNum(ret.y[3][j]) /\ ret.y[3][j].n # 0

\* C26: evaluating the calibration objective in grid-search mode leaves every
\* field of the model unchanged (theta, status, dvErr, qErr, dv0, v,
\* Distorted), so the value of one trial does not depend on the trials made
\* before it.
C26_GridSearchWritesNoField ==
    [][(pc = "grid") =>
          <<theta, status, dvErr, qErr, dv0, v, Distorted, hl, bounds, drift,
            bundles, writes>>'
            = <<theta, status, dvErr, qErr, dv0, v, Distorted, hl, bounds,
                drift, bundles, writes>>]_vars

\* all candidates of thetalist have been evaluated on a new model, one of
\* them rejected
C26_Witness ==
    /\ pc = "seeded"
    /\ Len(values) = Len(thetalist)
    /\ \E i \in DOMAIN values : values[i] = Inf
    /\ \E i \in DOMAIN values : IsNum(values[i])
    /\ theta = None /\ status = 0 /\ dvErr = None /\ qErr = None
    /\ dv0 = None /\ ~v.set /\ ~Distorted

\* C27: once solvetheta has returned, HL, UpdatingDrift and ExpectH never
\* change theta, status, dvErr or qErr, whatever the status is and however
\* often they are called.  With theta set and solvetheta not running, these
\* (and ApproxBound) are the steps the model can take.
C27_CalibrationFrozen ==
    [][(pc = "idle" /\ theta # None) =>
          <<theta, status, dvErr, qErr>>' = <<theta, status, dvErr, qErr>>]_vars

\* on a model that solvetheta left unsolved, HL, UpdatingDrift and ExpectH
\* have been called, ExpectH twice
C27_Witness ==
    /\ pc = "idle"
    /\ IsNum(theta)
    /\ status = 0
    /\ dvErr # None
    /\ qErr # None
    /\ v.set /\ drift /\ bundles
    /\ writes["bundles"] = 2

\* the candidate root s21 (sign = 1) or s22 (sign = -1) of the call
RootAt(sign) == S2Root(par, call.z[1], call.dv[1], sign)

\* C28: in the scalar call the returned control is one of the candidate
\* roots s21, s22: s21 when the returned minimum is the objective at s21 (a
\* tie included), s22 otherwise, for every outcome of the two objective
\* evaluations, a NaN among them included.
C28_ControlIsTheMinimizingRoot ==
    (MinedCall /\ call.scalar) =>
        /\ ret.ctrl[1] \in {RootAt(1), RootAt(-1)}
        /\ ret.ctrl[1] = IF ret.res[1] = ObjectiveAt(1, 1) THEN RootAt(1)
                         ELSE RootAt(-1)

\* the same when both objectives are numbers
C28_ControlWhenBothObjectivesNumbers ==
    (MinedCall /\ call.scalar /\ IsNum(ObjectiveAt(1, 1))
        /\ IsNum(ObjectiveAt(1, -1))) =>
        /\ ret.ctrl[1] \in {RootAt(1), RootAt(-1)}
        /\ ret.ctrl[1] = IF ret.res[1] = ObjectiveAt(1, 1) THEN RootAt(1)
                         ELSE RootAt(-1)

\* the bundle that ExpectH stored under a name
Stored(name) == CHOOSE b \in ret.stored : b.name = name

Shocks == {1, 2}
Percentiles == {"q10", "q50", "q90"}

ShockName(i) == IF i = 1 THEN "shock1" ELSE "shock2"
HName(i) == IF i = 1 THEN "h1" ELSE "h2"
AmbiguityName(i) == IF i = 1 THEN "ambiguity1" ELSE "ambiguity2"
MisspecName(i) == IF i = 1 THEN "misspec1" ELSE "misspec2"

RatAbs(x) == IF x.p < 0 THEN RatNeg(x) ELSE x

\* ambiguity + misspec + 0.01 * sigmak[i] at percentile p and time index t,
\* evaluated in floats from left to right
SumOfPrices(i, p, t) ==
    Fl(RatAdd(Fl(RatAdd(Stored(AmbiguityName(i))[p][t],
                        Stored(MisspecName(i))[p][t])),
              RatInt(par.sk[i])))

\* the same sum without rounding
ExactSumOfPrices(i, p, t) ==
    RatAdd(RatAdd(Stored(AmbiguityName(i))[p][t], Stored(MisspecName(i))[p][t]),
           RatInt(par.sk[i]))

\* C29 as stated: for each shock i and percentile p the stored bundles
\* satisfy shock_i[p] = ambiguity_i[p] + misspec_i[p] + 0.01 * sigmak[i] at
\* every time index, exactly.
C29_ShockIsExactlyTheSum ==
    (call.f = "ExpectH" /\ ~ret.raised) =>
        \A i \in Shocks : \A p \in Percentiles :
            \A t \in DOMAIN Stored(ShockName(i))[p] :
                Stored(ShockName(i))[p][t] = SumOfPrices(i, p, t)

\* C29 amended: shock_i[p] is the rounded h_i[p] + 0.01 * sigmak[i] and
\* misspec_i[p] the rounded -ambiguity_i[p] + h_i[p], so that shock_i[p]
\* differs from ambiguity_i[p] + misspec_i[p] + 0.01 * sigmak[i] by at most
\* the rounding errors of these two additions, 2^-Mantissa of each sum.
C29_ShockIsTheSumUpToRounding ==
    (call.f = "ExpectH" /\ ~ret.raised) =>
        \A i \in Shocks : \A p \in Percentiles :
            \A t \in DOMAIN Stored(ShockName(i))[p] :
                LET h == Stored(HName(i))[p][t]
                    a == Stored(AmbiguityName(i))[p][t]
                    c == RatInt(par.sk[i])
                    shock == Stored(ShockName(i))[p][t]
                IN  /\ shock = Fl(RatAdd(h, c))
                    /\ Stored(MisspecName(i))[p][t] = Fl(RatAdd(RatNeg(a), h))
                    /\ RatLe(RatMul(RatInt(Pow2(Mantissa)),
                                    RatAbs(RatSub(shock,
                                                  ExactSumOfPrices(i, p, t)))),
                             RatAdd(RatAbs(RatAdd(h, c)),
                                    RatAbs(RatSub(h, a))))

\* ExpectH has stored bundles in which the sum of the prices is the shock
\* price at one time index and is not at another
C29_Witness ==
    /\ call.f = "ExpectH"
    /\ ~ret.raised
    /\ \E i \in Shocks : \E p \in Percentiles :
          \E t, u \in DOMAIN Stored(ShockName(i))[p] :
             /\ Stored(AmbiguityName(i))[p][t] # RatInt(0)
             /\ Stored(ShockName(i))[p][t] = SumOfPrices(i, p, t)
             /\ Stored(ShockName(i))[p][u] # SumOfPrices(i, p, u)
             /\ Stored(ShockName(i))[p][u] # ExactSumOfPrices(i, p, u)

\* UpdatingDrift has stored its drifts
DriftStored == call.f = "UpdatingDrift"

\* C30: for every long-run mean zbar the driftz stored by UpdatingDrift
\* is, at every grid point, the drift muz that ExpectH hands to the forward
\* solver and the distorted drift in the generator rows of the
\* relative-entropy and the Chernoff evaluator.
C30_OneDriftField ==
    DriftStored =>
        /\ ret.driftz = MuZ(par, ret.x, ret.rh)
        /\ ret.driftz = EntropyDrift(par, ret.x, ret.rh)
        /\ ret.driftz = ChernoffDrift(par, ret.x, ret.rh, 1)

\* the same for a long-run mean of zero
C30_OneDriftFieldAtZeroMean ==
    (DriftStored /\ par.zbar = 0) =>
        /\ ret.driftz = MuZ(par, ret.x, ret.rh)
        /\ ret.driftz = EntropyDrift(par, ret.x, ret.rh)
        /\ ret.driftz = ChernoffDrift(par, ret.x, ret.rh, 1)

\* the three other uses agree with one another for every long-run mean
C30_OtherUsesAgree ==
    DriftStored =>
        /\ MuZ(par, ret.x, ret.rh) = EntropyDrift(par, ret.x, ret.rh)
        /\ MuZ(par, ret.x, ret.rh) = ChernoffDrift(par, ret.x, ret.rh, 1)

====
